---- MODULE Spec2Model ----
(***************************************************************************)
(* Model of vogon.py: generation of customised videos from a video, a CSV  *)
(* data table and a JSON layout.                                           *)
(*                                                                         *)
(* Text that the program searches or rewrites (templates, CSV values) is a *)
(* sequence of one-character strings.  Text that the program only builds   *)
(* (stream labels, filter stages) is kept as the segments the code         *)
(* concatenates.                                                           *)
(***************************************************************************)
EXTENDS Integers, Sequences, FiniteSets, TLC

VARIABLES
    template,     \* replace_vars: argument s
    values,       \* replace_vars: argument values (a row)
    subst,        \* replace_vars: the call's outcome
    images,       \* filter_strings / image_inputs: argument images
    text_lines,   \* filter_strings: argument text_lines
    img_args,     \* result of image_inputs
    filters,      \* result of filter_strings
    tmpfiles,     \* contents of the files made by write_to_temp_file, by number
    pc,           \* position of the run in main / generate_videos
    cli,          \* TRUE: started by main(); FALSE: generate_videos called directly
    arg_preview,  \* the preview line the caller gives: --preview_line, or the
                  \* argument of a direct call; None when it gives none
    config_ok,    \* whether the configuration file is readable JSON
    csv,          \* records of the CSV file, header first
    youtube_upload, \* the --youtube_upload flag
    preview_line, \* generate_videos: argument preview_line
    data,         \* result of read_csv_file
    lines,        \* generate_videos: the [i, row] pairs still to process
    video,        \* generate_videos: output of the last generate_video
    renders,      \* the calls of ffmpeg made, in order
    uploads,      \* the calls of initialize_upload made, in order
    printed,      \* what the program printed
    raised        \* the exception that ended the run, or None

vars == <<template, values, subst, images, text_lines, img_args, filters,
          tmpfiles, pc, cli, arg_preview, config_ok, csv, youtube_upload,
          preview_line, data, lines, video, renders, uploads, printed, raised>>

substVars == <<template, values, subst>>
filterVars == <<images, text_lines, img_args, filters>>
runVars == <<cli, arg_preview, config_ok, csv, youtube_upload, preview_line,
             data, lines, video, renders, uploads, printed, raised>>

\* Python's None.
None == "None"

(***************************************************************************)
(* Strings                                                                 *)
(***************************************************************************)

\* The backslash and the line feed, as characters.
BS == "\\"
LF == "\n"

\* str(n) for n >= 0: the decimal digits of n.
RECURSIVE str(_)
str(n) == IF n < 10 THEN <<ToString(n)>> ELSE str(n \div 10) \o <<ToString(n % 10)>>

\* All orders in which the keys of a dict can be iterated.
RECURSIVE Orders(_)
Orders(S) ==
    IF S = {} THEN {<<>>}
    ELSE UNION {{<<k>> \o o : o \in Orders(S \ {k})} : k \in S}

(***************************************************************************)
(* replace_vars                                                            *)
(***************************************************************************)

Ok(v) == [ok |-> TRUE, val |-> v]
Err(e) == [ok |-> FALSE, val |-> e]

\* re.IGNORECASE: characters are compared after case folding.
Lower(c) ==
    CASE c = "A" -> "a"
      [] c = "B" -> "b"
      [] c = "M" -> "m"
      [] OTHER -> c

\* '{{' + v_key + '}}'
Token(v_key) == <<"{", "{">> \o v_key \o <<"}", "}">>

\* Whether the escaped, case-insensitive pattern pat matches s at position i.
MatchAt(pat, s, i) ==
    /\ i + Len(pat) - 1 <= Len(s)
    /\ \A k \in 1..Len(pat) : Lower(s[i + k - 1]) = Lower(pat[k])

\* The escapes re.sub understands in a replacement string, for the
\* characters of the model's alphabet.
ESCAPES == [c \in {"a", "b", "n", BS} |->
              CASE c = "a" -> "<BEL>"
                [] c = "b" -> "<BS>"
                [] c = "n" -> LF
                [] c = BS -> BS]

\* re.sub's processing of the replacement string: a backslash followed by a
\* known escape is that character, a backslash followed by another
\* character is kept, a backslash at the end is an error.
RECURSIVE parse_template(_)
parse_template(repl) ==
    IF repl = <<>> THEN Ok(<<>>)
    ELSE IF Head(repl) # BS THEN
        LET rest == parse_template(Tail(repl))
        IN IF rest.ok THEN Ok(<<Head(repl)>> \o rest.val) ELSE rest
    ELSE IF Len(repl) = 1 THEN Err("re.error")
    ELSE
        LET c == repl[2]
            rest == parse_template(Tail(Tail(repl)))
            this == IF c \in DOMAIN ESCAPES THEN <<ESCAPES[c]>> ELSE <<BS, c>>
        IN IF rest.ok THEN Ok(this \o rest.val) ELSE rest

\* The leftmost non-overlapping matches of pat in s, from position i on, each
\* replaced by rep.
RECURSIVE SubFrom(_, _, _, _)
SubFrom(pat, rep, s, i) ==
    IF i > Len(s) THEN <<>>
    ELSE IF MatchAt(pat, s, i) THEN rep \o SubFrom(pat, rep, s, i + Len(pat))
    ELSE <<s[i]>> \o SubFrom(pat, rep, s, i + 1)

\* re.sub(re.compile(re.escape(pat), re.IGNORECASE), repl, s)
re_sub(pat, repl, s) ==
    LET rep == parse_template(repl)
    IN IF rep.ok THEN Ok(SubFrom(pat, rep.val, s, 1)) ELSE rep

\* replace_vars(s, values), the items of values iterated in the given order.
RECURSIVE replace_vars(_, _, _)
replace_vars(s, vals, order) ==
    IF order = <<>> THEN Ok(s)
    ELSE
        LET v_key == Head(order)
            r == re_sub(Token(v_key), vals[v_key], s)
        IN IF r.ok THEN replace_vars(r.val, vals, Tail(order)) ELSE r

(***************************************************************************)
(* filter_strings, image_inputs, run_ffmpeg                                *)
(***************************************************************************)

\* image_filter: the segments of the returned string, in order:
\* '[' + input_stream + ']', '[' + str(image_stream_index) + ':v]',
\* ' overlay=' x ':' y ':enable=between(t,' t_start ',' t_end ')', out_str.
image_filter(input_stream, image_stream_index, x, y, t_start, t_end, out_stream) ==
    LET out_str == IF out_stream = None THEN "" ELSE "[" \o out_stream \o "]"
    IN [in |-> "[" \o input_stream \o "]",
        src |-> "[" \o ToString(image_stream_index) \o ":v]",
        filter |-> "overlay",
        x |-> x, y |-> y, enable |-> <<t_start, t_end>>,
        out |-> out_str]

\* write_to_temp_file: the name of the new file; mkstemp never reuses the
\* name of a file that exists, which the model gets by numbering the files.
text_file_name(ntmp) == "vogon_" \o ToString(ntmp + 1) \o ".txt"

\* text_filter: the segments of the returned string, in order.  The text
\* itself goes to the temporary file text_file_name.
text_filter(input_stream, file_name, font, font_size, font_color, x, y, t_start, t_end, out_stream) ==
    LET out_str == IF out_stream = None THEN "" ELSE "[" \o out_stream \o "]"
    IN [in |-> "[" \o input_stream \o "]",
        filter |-> "drawtext",
        fontfile |-> font, textfile |-> file_name,
        fontsize |-> font_size, fontcolor |-> font_color,
        x |-> x, y |-> y, enable |-> <<t_start, t_end>>,
        out |-> out_str]

\* Mutant: the text overlays chained before the image overlays.
overlays_of_swapped(imgs, txts) == txts \o imgs

\* overlays = (images + text_lines)
overlays_of(imgs, txts) == imgs \o txts

\* Mutant: the last overlay is taken to be at len(overlays), so every stage
\* gets an output label.
output_stream_off_by_one(i, n) == IF i = n THEN None ELSE "str" \o ToString(i)

\* output_stream = None if i == (len(overlays) - 1) else ('str' + str(i))
output_stream(i, n) == IF i = n - 1 THEN None ELSE "str" \o ToString(i)

\* Mutant: the image numbered from 0, which is the number of the main video.
image_stream_index_from_zero(i) == i

\* The image_stream_index passed to image_filter for the overlay at i.
image_stream_index_of(i) == i + 1

\* The loop of filter_strings from position i (0-based) on; ntmp temporary
\* files exist when the iteration starts.
RECURSIVE filter_loop(_, _, _, _, _)
filter_loop(overlays, i, input_stream, ntmp, retval) ==
    IF i >= Len(overlays) THEN retval
    ELSE
        LET ovr == overlays[i + 1]
            out == output_stream(i, Len(overlays))
            is_image == "image" \in DOMAIN ovr
            f == IF is_image
                 THEN image_filter(input_stream, image_stream_index_of(i),
                                   ovr.x, ovr.y, ovr.start_time, ovr.end_time,
                                   out)
                 ELSE text_filter(input_stream, text_file_name(ntmp), ovr.font,
                                  ovr.font_size, ovr.font_color, ovr.x, ovr.y,
                                  ovr.start_time, ovr.end_time, out)
        IN filter_loop(overlays, i + 1, out,
                       IF is_image THEN ntmp ELSE ntmp + 1, Append(retval, f))

\* filter_strings(images, text_lines), called when ntmp temporary files exist.
filter_strings(imgs, txts, ntmp) ==
    filter_loop(overlays_of(imgs, txts), 0, "0:v", ntmp, <<>>)

\* The texts that filter_strings writes to temporary files, in order.
RECURSIVE written_texts(_)
written_texts(overlays) ==
    IF overlays = <<>> THEN <<>>
    ELSE (IF "image" \in DOMAIN Head(overlays) THEN <<>>
          ELSE <<Head(overlays).text>>) \o written_texts(Tail(overlays))

\* image_inputs(images): '-i', path, '-i', path, ...
RECURSIVE image_inputs(_)
image_inputs(imgs) ==
    IF imgs = <<>> THEN <<>>
    ELSE <<<<"-", "i">>, Head(imgs).image>> \o image_inputs(Tail(imgs))

\* The argument list run_ffmpeg gives to subprocess.call; the filters are
\* joined with ';' into one argument.
ffmpeg_args(args_img, filter_list, input_video, output_video) ==
    [cmd |-> <<"ffmpeg", "-y">>,
     inputs |-> <<<<"-", "i">>, input_video>> \o args_img,
     filter_complex |-> filter_list,
     output |-> output_video]

(***************************************************************************)
(* replace_vars on its own: the template and the row are drawn from small  *)
(* sets, and one action applies the function.                              *)
(***************************************************************************)

KeyA == <<"a">>
KeyB == <<"b">>

\* Templates: "{{a}}", "{{A}}x{{a}}", "{{m}}", "x", "{{a}}{{b}}", "{{m}}{{B}}".
SubstTemplates ==
    { Token(KeyA),
      Token(<<"A">>) \o <<"x">> \o Token(KeyA),
      Token(<<"m">>),
      <<"x">>,
      Token(KeyA) \o Token(KeyB),
      Token(<<"m">>) \o Token(<<"B">>) }

\* Values: "x", "x y", backslash n, two backslashes, "y" backslash, "{{b}}".
SubstValues ==
    { <<"x">>, <<"x", " ", "y">>, <<BS, "n">>, <<BS, BS>>, <<"y", BS>>,
      Token(KeyB) }

\* Rows with the column a, or the columns a and b.
SubstRows ==
    {[k \in {KeyA} |-> v] : v \in SubstValues}
    \cup {[k \in {KeyA, KeyB} |-> IF k = KeyA THEN v ELSE w] :
            v \in SubstValues, w \in SubstValues}

RunIdle ==
    /\ cli = FALSE /\ arg_preview = [none |-> TRUE, n |-> 0]
    /\ config_ok = TRUE /\ csv = <<>>
    /\ youtube_upload = FALSE /\ preview_line = [none |-> TRUE, n |-> 0]
    /\ data = <<>>
    /\ lines = <<>> /\ video = <<>> /\ renders = <<>> /\ uploads = <<>>
    /\ printed = <<>> /\ raised = None

FilterIdle ==
    /\ images = <<>> /\ text_lines = <<>> /\ img_args = <<>> /\ filters = <<>>

SubstIdle ==
    /\ template = <<>> /\ values = <<>> /\ subst = Ok(<<>>)

InitSubst ==
    /\ template \in SubstTemplates
    /\ values \in SubstRows
    /\ subst = Ok(<<>>)
    /\ pc = "replace_vars"
    /\ tmpfiles = <<>>
    /\ FilterIdle
    /\ RunIdle

\* One call replace_vars(template, values); the dict is iterated in some order.
ReplaceVars ==
    /\ pc = "replace_vars"
    /\ \E order \in Orders(DOMAIN values) :
         subst' = replace_vars(template, values, order)
    /\ pc' = "returned"
    /\ UNCHANGED <<template, values, tmpfiles>>
    /\ UNCHANGED filterVars
    /\ UNCHANGED runVars

NextSubst == ReplaceVars

SpecSubst == InitSubst /\ [][NextSubst]_vars

(***************************************************************************)
(* filter_strings and image_inputs on their own, called as generate_video  *)
(* calls them.                                                             *)
(***************************************************************************)

MaxImages == 2
MaxTexts == 2

ImagePaths == {<<"p">>, <<"q">>, <<"r">>}
Texts == {<<"x">>, <<"y">>}

ImageOverlays ==
    {[image |-> p, x |-> 10, y |-> 20, start_time |-> 0, end_time |-> 5] :
        p \in ImagePaths}

TextOverlays ==
    {[text |-> t, font |-> <<"f">>, font_size |-> 12, font_color |-> <<"w">>,
      x |-> 30, y |-> 40, start_time |-> 1, end_time |-> 4] : t \in Texts}

SeqsUpTo(S, n) == UNION {[1..k -> S] : k \in 0..n}

InitFilter ==
    /\ images \in SeqsUpTo(ImageOverlays, MaxImages)
    /\ text_lines \in SeqsUpTo(TextOverlays, MaxTexts)
    /\ img_args = <<>>
    /\ filters = <<>>
    /\ tmpfiles = <<>>
    /\ pc = "image_inputs"
    /\ SubstIdle
    /\ RunIdle

\* img_args = image_inputs(image_overlays)
ImageInputs ==
    /\ pc = "image_inputs"
    /\ img_args' = image_inputs(images)
    /\ pc' = "filter_strings"
    /\ UNCHANGED <<images, text_lines, filters, tmpfiles>>
    /\ UNCHANGED substVars
    /\ UNCHANGED runVars

\* The files write_to_temp_file makes for the given texts when the files in
\* files exist.
RECURSIVE write_to_temp_files(_, _)
write_to_temp_files(files, texts) ==
    IF texts = <<>> THEN files
    ELSE write_to_temp_files(
            Append(files, [name |-> text_file_name(Len(files)),
                           text |-> Head(texts)]),
            Tail(texts))

\* filters = filter_strings(image_overlays, text_overlays)
FilterStrings ==
    /\ pc = "filter_strings"
    /\ filters' = filter_strings(images, text_lines, Len(tmpfiles))
    /\ tmpfiles' = write_to_temp_files(tmpfiles,
                       written_texts(overlays_of(images, text_lines)))
    /\ pc' = "built"
    /\ UNCHANGED <<images, text_lines, img_args>>
    /\ UNCHANGED substVars
    /\ UNCHANGED runVars

NextFilter == ImageInputs \/ FilterStrings

SpecFilter == InitFilter /\ [][NextFilter]_vars

(***************************************************************************)
(* A run: main, or a direct call of generate_videos                        *)
(***************************************************************************)

MaxRows == 3

\* The column '$id' that generate_video adds to a row.
ID == <<"$", "i", "d">>

\* The exit codes of ffmpeg: success and failure.
ExitCodes == {0, 1}

\* The outcomes of initialize_upload: it returns, or it raises an HttpError
\* with a status and a content.
Uploaded == [error |-> FALSE, status |-> 200, content |-> ""]
HttpErrors == {[error |-> TRUE, status |-> 403, content |-> "quotaExceeded"]}
UploadOutcomes == {Uploaded} \cup HttpErrors

\* The configuration: one image and one text line, with placeholders.
Config ==
    [data_file |-> <<"d">>,
     video |-> <<"v">>,
     output_video |-> <<"o">> \o Token(ID),
     video_title |-> <<"t">> \o Token(KeyA),
     video_description |-> Token(KeyB) \o Token(<<"m">>),
     images |-> <<[image |-> Token(KeyA), x |-> 10, y |-> 20,
                   start_time |-> 0, end_time |-> 5]>>,
     text_lines |-> <<[text |-> Token(ID) \o Token(<<"B">>), font |-> <<"f">>,
                       font_size |-> 12, font_color |-> <<"w">>,
                       x |-> 30, y |-> 40, start_time |-> 1, end_time |-> 4]>>]

\* The fields of an overlay whose value in Config is a string.
StringFields == {"image", "text", "font", "font_color"}

\* The CSV files: no record at all, or the header a,b and up to MaxRows
\* records of one field (short), two fields, or three fields (long).
Header == <<KeyA, KeyB>>
CsvRecords ==
    { <<<<"y">>>>,
      <<<<"x">>, <<"y">>>>,
      <<<<"x">>, <<"y">>, <<"x">>>> }
CsvFiles ==
    {<<>>} \cup {<<Header>> \o rows : rows \in SeqsUpTo(CsvRecords, MaxRows)}

\* A preview line: None (no line), or the integer n.
NoLine == [none |-> TRUE, n |-> 0]
Line(n) == [none |-> FALSE, n |-> n]

\* The preview lines a caller may give.
PreviewArgs == {NoLine} \cup {Line(n) : n \in 0..MaxRows}

\* The dict built from one record: item[header[i]] = value for each field,
\* a later field of the same name replacing an earlier one.
item_of(header, row) ==
    [k \in {header[i] : i \in 1..Len(row)} |->
        LET last == CHOOSE i \in 1..Len(row) :
                        /\ header[i] = k
                        /\ \A j \in (i + 1)..Len(row) : header[j] # k
        IN row[last]]

\* read_csv_file: the list of the dicts of the records after the header.
\* data.next() raises StopIteration on a file without records, header[i]
\* raises IndexError on a record longer than the header.
read_csv_file(file) ==
    IF file = <<>> THEN Err("CsvStopIteration")
    ELSE IF \E r \in 2..Len(file) : Len(file[r]) > Len(file[1])
    THEN Err("CsvIndexError")
    ELSE Ok([r \in 1..(Len(file) - 1) |-> item_of(file[1], file[r + 1])])

\* row['$id'] = str(row_num)
WithId(row, row_num) ==
    [k \in DOMAIN row \cup {ID} |-> IF k = ID THEN str(row_num) ELSE row[k]]

\* Mutant: the preview line used as a 0-based index.
py_index_one_based(n, k) ==
    IF 0 <= k - 1 /\ k - 1 < n THEN k + 1
    ELSE IF 0 - n <= k /\ k < 0 THEN n + k + 1
    ELSE 0

\* The 1-based position of seq[k] for a Python list of n elements (negative
\* k counts from the end), 0 for an IndexError.
py_index(n, k) ==
    IF 0 <= k /\ k < n THEN k + 1
    ELSE IF 0 - n <= k /\ k < 0 THEN n + k + 1
    ELSE 0

\* The list lines of generate_videos: pairs of the index i and a reference
\* to a row of data (its position).
select_lines(rows, preview) ==
    IF ~preview.none
    THEN LET pos == py_index(Len(rows), preview.n - 1)
         IN IF pos = 0 THEN Err("PreviewIndexError")
            ELSE Ok(<<[i |-> preview.n - 1, ref |-> pos]>>)
    ELSE Ok([k \in 1..Len(rows) |-> [i |-> k - 1, ref |-> k]])

\* replace_vars_in_overlay for one overlay.
replace_vars_in_one(o, vals, order) ==
    LET r == [k \in DOMAIN o \cap StringFields |->
                 replace_vars(o[k], vals, order)]
    IN IF \E k \in DOMAIN r : ~r[k].ok
       THEN Err("re.error")
       ELSE Ok([k \in DOMAIN o |->
                   IF k \in StringFields THEN r[k].val ELSE o[k]])

\* replace_vars_in_overlay(overlay_configs, values)
replace_vars_in_overlay(overlay_configs, vals, order) ==
    LET r == [n \in 1..Len(overlay_configs) |->
                 replace_vars_in_one(overlay_configs[n], vals, order)]
    IN IF \E n \in DOMAIN r : ~r[n].ok
       THEN Err("re.error")
       ELSE Ok([n \in DOMAIN r |-> r[n].val])

\* generate_video(config, row, row_num) when the files in files exist: what
\* it raises, the temporary files afterwards, the arguments of the ffmpeg
\* call it makes (if it makes one) and the name it returns.
generate_video(config, row, row_num, order, files) ==
    LET image_overlays == replace_vars_in_overlay(config.images, row, order)
        text_overlays == replace_vars_in_overlay(config.text_lines, row, order)
        output_video == replace_vars(config.output_video, row, order)
    IN IF ~image_overlays.ok \/ ~text_overlays.ok
       THEN [raised |-> "re.error", files |-> files, calls |-> <<>>,
             video |-> <<>>]
       ELSE
         LET args_img == image_inputs(image_overlays.val)
             filter_list == filter_strings(image_overlays.val,
                                           text_overlays.val, Len(files))
             files2 == write_to_temp_files(files,
                          written_texts(overlays_of(image_overlays.val,
                                                    text_overlays.val)))
         IN IF ~output_video.ok
            THEN [raised |-> "re.error", files |-> files2, calls |-> <<>>,
                  video |-> <<>>]
            ELSE [raised |-> None, files |-> files2,
                  calls |-> <<[row_num |-> row_num, row |-> row,
                               args |-> ffmpeg_args(args_img, filter_list,
                                            config.video, output_video.val)]>>,
                  video |-> output_video.val]

\* run_ffmpeg: subprocess.call(args) returns the exit code of ffmpeg, and
\* run_ffmpeg drops it.  The record is the call as the world sees it.
run_ffmpeg(call, exit) ==
    [row_num |-> call.row_num, row |-> call.row, args |-> call.args,
     exit |-> exit]

\* Mutant: the HttpError is not caught and ends the run.
upload_to_youtube_uncaught(e) ==
    IF ~e.error THEN [printed |-> <<>>, raised |-> None]
    ELSE [printed |-> <<>>, raised |-> "HttpError"]

\* upload_to_youtube, from the outcome e of initialize_upload: what it
\* prints and what it raises.
upload_to_youtube(e) ==
    IF ~e.error THEN [printed |-> <<>>, raised |-> None]
    ELSE [printed |-> <<[what |-> "An HTTP error occurred",
                         status |-> e.status, content |-> e.content]>>,
          raised |-> None]

Init ==
    /\ pc = "start"
    /\ cli \in BOOLEAN
    /\ arg_preview \in PreviewArgs
    /\ config_ok \in BOOLEAN
    /\ csv \in CsvFiles
    /\ youtube_upload \in BOOLEAN
    /\ preview_line = NoLine
    /\ data = <<>>
    /\ lines = <<>>
    /\ video = <<>>
    /\ renders = <<>>
    /\ uploads = <<>>
    /\ printed = <<>>
    /\ raised = None
    /\ tmpfiles = <<>>
    /\ SubstIdle
    /\ FilterIdle

\* main: --preview_line has the default 1.
Main ==
    /\ pc = "start"
    /\ cli
    /\ preview_line' = IF arg_preview.none THEN Line(1) ELSE arg_preview
    /\ pc' = "load_config"
    /\ UNCHANGED <<cli, arg_preview, config_ok, csv, youtube_upload, data,
                   lines, video, renders, uploads, printed, raised, tmpfiles>>
    /\ UNCHANGED substVars
    /\ UNCHANGED filterVars

\* generate_videos called by another module, with its own preview_line.
Call ==
    /\ pc = "start"
    /\ ~cli
    /\ preview_line' = arg_preview
    /\ pc' = "load_config"
    /\ UNCHANGED <<cli, arg_preview, config_ok, csv, youtube_upload, data,
                   lines, video, renders, uploads, printed, raised, tmpfiles>>
    /\ UNCHANGED substVars
    /\ UNCHANGED filterVars

\* config = load_config(config_file)
LoadConfig ==
    /\ pc = "load_config"
    /\ IF config_ok
       THEN pc' = "read_csv" /\ raised' = raised
       ELSE pc' = "aborted" /\ raised' = "ConfigError"
    /\ UNCHANGED <<cli, arg_preview, config_ok, csv, youtube_upload,
                   preview_line, data, lines, video, renders, uploads,
                   printed, tmpfiles>>
    /\ UNCHANGED substVars
    /\ UNCHANGED filterVars

\* Mutant: the records are read as they are processed, so the rows before a
\* malformed record are processed although the read fails.
ReadCsvFileLazy ==
    /\ pc = "read_csv"
    /\ LET r == read_csv_file(csv)
           good == CHOOSE n \in 0..Len(csv) :
                      /\ \A k \in 2..(n + 1) : Len(csv[k]) <= Len(csv[1])
                      /\ n + 2 <= Len(csv) => Len(csv[n + 2]) > Len(csv[1])
       IN IF r.ok
          THEN pc' = "lines" /\ data' = r.val /\ raised' = raised
          ELSE IF csv = <<>>
          THEN pc' = "aborted" /\ data' = data /\ raised' = r.val
          ELSE /\ pc' = "lines"
               /\ data' = [k \in 1..good |-> item_of(csv[1], csv[k + 1])]
               /\ raised' = r.val
    /\ UNCHANGED <<cli, arg_preview, config_ok, csv, youtube_upload,
                   preview_line, lines, video, renders, uploads, printed,
                   tmpfiles>>
    /\ UNCHANGED substVars
    /\ UNCHANGED filterVars

\* data = read_csv_file(config['data_file'], ',')
ReadCsvFile ==
    /\ pc = "read_csv"
    /\ LET r == read_csv_file(csv)
       IN IF r.ok
          THEN pc' = "lines" /\ data' = r.val /\ raised' = raised
          ELSE pc' = "aborted" /\ data' = data /\ raised' = r.val
    /\ UNCHANGED <<cli, arg_preview, config_ok, csv, youtube_upload,
                   preview_line, lines, video, renders, uploads, printed,
                   tmpfiles>>
    /\ UNCHANGED substVars
    /\ UNCHANGED filterVars

\* lines = [[preview_line - 1, data[preview_line - 1]]], or enumerate(data)
SelectLines ==
    /\ pc = "lines"
    /\ LET r == select_lines(data, preview_line)
       IN IF r.ok
          THEN pc' = "loop" /\ lines' = r.val /\ raised' = raised
          ELSE pc' = "aborted" /\ lines' = lines /\ raised' = r.val
    /\ UNCHANGED <<cli, arg_preview, config_ok, csv, youtube_upload,
                   preview_line, data, video, renders, uploads, printed,
                   tmpfiles>>
    /\ UNCHANGED substVars
    /\ UNCHANGED filterVars

\* video = generate_video(config, row, (i + 1)) for the next pair of lines;
\* the row is the dict of data itself, which gets the key '$id'.
GenerateVideo ==
    /\ pc = "loop"
    /\ lines # <<>>
    /\ LET i == Head(lines).i
           ref == Head(lines).ref
           row == WithId(data[ref], i + 1)
       IN \E order \in Orders(DOMAIN row) :
            \E g \in {generate_video(Config, row, i + 1, order, tmpfiles)} :
               /\ data' = [data EXCEPT ![ref] = row]
               /\ tmpfiles' = g.files
               /\ \E exit \in ExitCodes :
                    renders' = renders \o
                        [n \in 1..Len(g.calls) |-> run_ffmpeg(g.calls[n], exit)]
               /\ video' = g.video
               /\ raised' = IF g.raised # None THEN g.raised ELSE raised
               /\ pc' = IF g.raised # None THEN "aborted"
                        ELSE IF youtube_upload THEN "upload"
                        ELSE "loop"
               /\ lines' = IF g.raised = None /\ ~youtube_upload
                           THEN Tail(lines) ELSE lines
    /\ UNCHANGED <<cli, arg_preview, config_ok, csv, youtube_upload,
                   preview_line, uploads, printed>>
    /\ UNCHANGED substVars
    /\ UNCHANGED filterVars

\* The upload of the video of the current row: title and description are
\* substituted, then upload_to_youtube is called.
UploadToYoutube ==
    /\ pc = "upload"
    /\ LET row == data[Head(lines).ref]
       IN \E order \in Orders(DOMAIN row), e \in UploadOutcomes :
            LET title == replace_vars(Config.video_title, row, order)
                description == replace_vars(Config.video_description, row, order)
                u == upload_to_youtube(e)
            IN IF ~title.ok \/ ~description.ok
               THEN /\ pc' = "aborted"
                    /\ raised' = "re.error"
                    /\ UNCHANGED <<uploads, printed, lines>>
               ELSE /\ uploads' = Append(uploads,
                          [file |-> video, title |-> title.val,
                           description |-> description.val, error |-> e])
                    /\ printed' = printed \o u.printed
                    /\ raised' = IF u.raised # None THEN u.raised ELSE raised
                    /\ pc' = IF u.raised = None THEN "loop" ELSE "aborted"
                    /\ lines' = IF u.raised = None THEN Tail(lines) ELSE lines
    /\ UNCHANGED <<cli, arg_preview, config_ok, csv, youtube_upload,
                   preview_line, data, video, renders, tmpfiles>>
    /\ UNCHANGED substVars
    /\ UNCHANGED filterVars

\* The loop of generate_videos ends: every pair of lines is processed.
Return ==
    /\ pc = "loop"
    /\ lines = <<>>
    /\ pc' = "done"
    /\ UNCHANGED <<cli, arg_preview, config_ok, csv, youtube_upload,
                   preview_line, data, lines, video, renders, uploads,
                   printed, raised, tmpfiles>>
    /\ UNCHANGED substVars
    /\ UNCHANGED filterVars

Next ==
    \/ Main
    \/ Call
    \/ LoadConfig
    \/ ReadCsvFile
    \/ SelectLines
    \/ GenerateVideo
    \/ UploadToYoutube
    \/ Return

Spec == Init /\ [][Next]_vars

(***************************************************************************)
(* Properties of replace_vars                                              *)
(***************************************************************************)

\* The substitution the documentation describes: one pass over s in which
\* every token {{key}}, in any letter case, becomes the row's value as it is.
RECURSIVE Verbatim(_, _, _)
Verbatim(s, vals, i) ==
    IF i > Len(s) THEN <<>>
    ELSE
        LET hits == {k \in DOMAIN vals : MatchAt(Token(k), s, i)}
        IN IF hits # {}
           THEN LET k == CHOOSE h \in hits : TRUE
                IN vals[k] \o Verbatim(s, vals, i + Len(Token(k)))
           ELSE <<s[i]>> \o Verbatim(s, vals, i + 1)

\* C7: replace_vars(template, row) raises no error and returns the template
\* with every token {{key}}, in any letter case, replaced by the row's value
\* for the key inserted verbatim, the other placeholders left as they are.
C7_ReplaceVarsVerbatim ==
    pc = "returned" =>
        /\ subst.ok
        /\ subst.val = Verbatim(template, values, 1)

(***************************************************************************)
(* Properties of filter_strings and image_inputs                           *)
(***************************************************************************)

\* The file an ffmpeg run reads as its input number n (the main video is
\* number 0).
InputFile(args, n) == args.inputs[2 * (n + 1)]

\* C1: the j-th image overlay gives stage j, an overlay stage whose second
\* input label is [j:v], and j is the position of the overlay's image among
\* the -i arguments of image_inputs, so that input j of the ffmpeg command
\* is that image.
C1_ImageNumbering ==
    pc = "built" =>
        /\ Len(img_args) = 2 * Len(images)
        /\ \A j \in 1..Len(images) :
            /\ filters[j].filter = "overlay"
            /\ filters[j].src = "[" \o ToString(j) \o ":v]"
            /\ img_args[2 * j - 1] = <<"-", "i">>
            /\ img_args[2 * j] = images[j].image
            /\ InputFile(ffmpeg_args(img_args, filters, <<"v">>, <<"o">>), j)
                 = images[j].image

C1_Witness ==
    /\ pc = "built"
    /\ Len(images) = 2
    /\ images[1].image # images[2].image
    /\ Len(text_lines) >= 1

\* C2: stage 0 reads 0:v, the output label of every stage but the last is
\* the input label of the next stage, and the last stage has no output
\* label.
C2_StreamChaining ==
    (pc = "built" /\ filters # <<>>) =>
        /\ filters[1].in = "[0:v]"
        /\ \A i \in 1..(Len(filters) - 1) :
            /\ filters[i].out # ""
            /\ filters[i].out = filters[i + 1].in
        /\ filters[Len(filters)].out = ""

C2_Witness ==
    /\ pc = "built"
    /\ Len(filters) >= 3
    /\ Len(images) >= 1
    /\ Len(text_lines) >= 1

\* The text in the temporary file of the given name.
FileText(files, name) ==
    (CHOOSE k \in 1..Len(files) : files[k].name = name)

\* C3: m image overlays and n text overlays give m + n stages, the overlay
\* stages of the images first, in their order, then the drawtext stages of
\* the text_lines, in their order.
C3_ChainLengthAndOrder ==
    pc = "built" =>
        /\ Len(filters) = Len(images) + Len(text_lines)
        /\ \A j \in 1..Len(images) : filters[j].filter = "overlay"
        /\ \A k \in 1..Len(text_lines) :
            LET f == filters[Len(images) + k]
            IN /\ f.filter = "drawtext"
               /\ \E n \in 1..Len(tmpfiles) : tmpfiles[n].name = f.textfile
               /\ tmpfiles[FileText(tmpfiles, f.textfile)].text
                    = text_lines[k].text

C3_Witness ==
    /\ pc = "built"
    /\ Len(images) >= 1
    /\ Len(text_lines) = 2
    /\ text_lines[1].text # text_lines[2].text

(***************************************************************************)
(* Properties of a run                                                     *)
(***************************************************************************)

\* The number of data rows of the CSV file.
NRows == IF csv = <<>> THEN 0 ELSE Len(csv) - 1

\* Row k of the file as generate_video sees it: the dict of record k with
\* '$id' set to str(k).
FileRow(k) == WithId(item_of(csv[1], csv[k + 1]), k)

\* The errors of load_config and read_csv_file.
ParseErrors == {"ConfigError", "CsvStopIteration", "CsvIndexError"}

\* C4: a run without a preview line renders every row of the table once, in
\* file order, the k-th video from row k with $id = str(k).
C4_BatchRendersEveryRow ==
    (pc = "done" /\ arg_preview.none) =>
        /\ Len(renders) = NRows
        /\ \A k \in 1..Len(renders) :
            /\ renders[k].row_num = k
            /\ renders[k].row = FileRow(k)

\* C5: with preview_line = p and 1 <= p <= N, one video is generated, from
\* row p of the file with $id = str(p), and nothing else is rendered or
\* uploaded.
C5_PreviewRendersOneRow ==
    ( /\ pc # "start"
      /\ ~preview_line.none
      /\ config_ok
      /\ read_csv_file(csv).ok
      /\ 1 <= preview_line.n
      /\ preview_line.n <= NRows ) =>
        LET p == preview_line.n
        IN /\ raised = None
           /\ Len(renders) <= 1
           /\ Len(uploads) <= Len(renders)
           /\ \A k \in 1..Len(renders) :
               /\ renders[k].row_num = p
               /\ renders[k].row = FileRow(p)
               /\ renders[k].row[ID] = str(p)
               /\ renders[k].args.output = <<"o">> \o str(p)
               /\ InputFile(renders[k].args, 1) = csv[p + 1][1]
           /\ \A k \in 1..Len(uploads) :
               uploads[k].file = renders[1].args.output
           /\ pc = "done" =>
               /\ Len(renders) = 1
               /\ Len(uploads) = IF youtube_upload THEN 1 ELSE 0

C5_Witness ==
    /\ pc = "done"
    /\ ~preview_line.none
    /\ preview_line.n = 2
    /\ NRows = 3
    /\ csv[2] # csv[3]
    /\ csv[4] # csv[3]
    /\ youtube_upload
    /\ Len(renders) = 1

C8_RowsHaveHeaderKeys ==
    pc = "lines" =>
        \A r \in 1..Len(data) :
            DOMAIN data[r] = {csv[1][i] : i \in 1..Len(csv[1])}

\* C9: when load_config or read_csv_file fails, no row is processed: ffmpeg
\* is never called, no temporary file is written and nothing is uploaded.
C9_ParseErrorBeforeAnyRow ==
    raised \in ParseErrors =>
        /\ renders = <<>>
        /\ tmpfiles = <<>>
        /\ uploads = <<>>

C9_Witness ==
    /\ pc = "aborted"
    /\ raised = "CsvIndexError"
    /\ Len(csv) >= 3
    /\ Len(csv[2]) = Len(csv[1])
    /\ Len(csv[Len(csv)]) > Len(csv[1])

\* C10: a render that exits non-zero is reported, is made once for its row,
\* and does not end the run.
C10_RenderFailureReported ==
    \A k \in 1..Len(renders) :
        renders[k].exit # 0 =>
            /\ \E m \in 1..Len(printed) :
                 /\ printed[m].what = "ffmpeg failed"
                 /\ printed[m].status = renders[k].exit
            /\ Cardinality({j \in 1..Len(renders) :
                              renders[j].row_num = renders[k].row_num}) = 1
            /\ raised = None

====
